---- MODULE Spec2Model ----
(***************************************************************************)
(* Model of src/src/InputManager.ts: the pointer / touch / wheel input     *)
(* coordinator of a viewport.  The state is the InputManager's fields and  *)
(* the flags of the owning viewport that the handlers read; every handler  *)
(* (down, move, up, handleWheel, pause, clear) is one action.  What the    *)
(* handler does to the outside world (plugin-chain call, clicked signal,   *)
(* stopPropagation, preventDefault) is recorded in fx, the effects of the  *)
(* most recent step.  Spec drives the handlers directly; SpecDom drives     *)
(* them through the canvas element's listeners (addListeners, destroy);    *)
(* SpecMap applies mapPositionToPoint.                                      *)
(***************************************************************************)
EXTENDS Naturals, Integers, Sequences, FiniteSets, TLC

\* ------------------------------------------------------------------ bounds
MaxX == 1              \* clientX of a pointer event is in 0..MaxX
MaxY == 1              \* clientY of a pointer event is in 0..MaxY
MaxTouchId == 2        \* touch pointer ids are 1..MaxTouchId
MaxWheelCoord == 2     \* clientX and clientY of a wheel event are in 0..MaxWheelCoord
threshold == 1         \* viewport.threshold, the configured movement threshold

\* ------------------------------------------------------------------ values
Point(x, y) == [tag |-> "point", x |-> x, y |-> y]
NullPoint == [tag |-> "null", x |-> 0, y |-> 0]
UndefinedPoint == [tag |-> "undefined", x |-> 0, y |-> 0]
\* JavaScript truthiness of a Point | null | undefined
IsPoint(p) == p.tag = "point"

TouchIds == 1..MaxTouchId
MouseId == 1

\* PointerEvent: the fields the handlers read
PointerEvents ==
    [pointerType : {"mouse"}, pointerId : {MouseId}, clientX : 0..MaxX, clientY : 0..MaxY]
    \cup [pointerType : {"touch"}, pointerId : TouchIds, clientX : 0..MaxX, clientY : 0..MaxY]
\* WheelEvent: the fields handleWheel reads
WheelEvents == [clientX : 0..MaxWheelCoord, clientY : 0..MaxWheelCoord]
\* an event reduced to the fields a handler reads: up reads the pointer only,
\* move the position only (down reads both)
Pointer(event) == [event EXCEPT !.clientX = 0, !.clientY = 0]
Position(event) == [event EXCEPT !.pointerType = "any", !.pointerId = 0]
UpEvents == {Pointer(e) : e \in PointerEvents}
MoveEvents == {Position(e) : e \in PointerEvents}
NoEvent == [pointerType |-> "none", pointerId |-> 0, clientX |-> 0, clientY |-> 0]

\* result of viewport.plugins.get(name, true): no plugin, or one that is or is not active
Indicators == {"absent", "idle", "active"}

\* IViewportTouch
Touch(id) == [id |-> id, last |-> "null"]
NoTouch == [id |-> 0, last |-> "null"]

Abs(n) == IF n < 0 THEN 0 - n ELSE n

\* the canvas element as handleWheel finds it: its backing size, whether it has
\* a parent element, and what getBoundingClientRect() returns.  The backing
\* size is a multiple of the rectangle's size, so width / rect.width is exact.
Canvases ==
    { [hasParent |-> FALSE, width |-> 4, height |-> 4,
       rect |-> [left |-> 0, top |-> 0, width |-> 0, height |-> 0]],
      [hasParent |-> TRUE, width |-> 4, height |-> 4,
       rect |-> [left |-> 0 - 1, top |-> 0 - 1, width |-> 2, height |-> 2]] }

\* the owning viewport's geometry: its position (toLocal) and its visible bounds
Viewport == [x |-> 1, y |-> 1, left |-> 0, right |-> 3, top |-> 0, bottom |-> 3]

\* ------------------------------------------------------------------- state
VARIABLES
    touches,           \* InputManager.touches : sequence of IViewportTouch
    isMouseDown,       \* InputManager.isMouseDown
    last,              \* InputManager.last : Point | null | undefined
    clickedAvailable,  \* InputManager.clickedAvailable : "undefined" | "true" | "false"
    viewportPause,     \* viewport.pause
    worldVisible,      \* viewport.worldVisible
    options,           \* viewport.options (fixed at construction)
    fx,                \* effects of the most recent step
    press,             \* history of the current press sequence
    listeners,         \* the canvas element's listeners: a set of [type, fn]
    hw,                \* the pointers on the canvas and the last hardware event
    mapped             \* the last application of mapPositionToPoint

manager == <<touches, isMouseDown, last, clickedAvailable>>
surface == <<viewportPause, worldVisible, options>>
element == <<listeners, hw, mapped>>
vars == <<touches, isMouseDown, last, clickedAvailable, viewportPause, worldVisible, options, fx, press,
          listeners, hw, mapped>>

Options == [stopPropagation : BOOLEAN, passiveWheel : BOOLEAN, allowPreserveDragOutside : BOOLEAN]

\* the effects of a step that did nothing observable
NoFx(op) ==
    [op |-> op, ignored |-> FALSE, event |-> NoEvent,
     decelerate |-> "unqueried", bounce |-> "unqueried",
     chain |-> "none", stop |-> FALSE,
     clicked |-> 0, screen |-> NullPoint, local |-> NullPoint,
     stopPropagation |-> 0, preventDefault |-> 0]

\* ----------------------------------------------------------------- helpers
\* count(): (this.isMouseDown ? 1 : 0) + this.touches.length
count(mouse, ts) == (IF mouse THEN 1 ELSE 0) + Len(ts)

\* get(id): the first touch with that id, or null
get(ts, id) ==
    IF \E i \in 1..Len(ts) : ts[i].id = id
    THEN ts[CHOOSE i \in 1..Len(ts) : ts[i].id = id /\ \A j \in 1..(i - 1) : ts[j].id # id]
    ELSE NoTouch

\* remove(id): splice out the first touch with that id
remove(ts, id) ==
    IF \E i \in 1..Len(ts) : ts[i].id = id
    THEN LET i == CHOOSE k \in 1..Len(ts) : ts[k].id = id /\ \A j \in 1..(k - 1) : ts[j].id # id
         IN SubSeq(ts, 1, i - 1) \o SubSeq(ts, i + 1, Len(ts))
    ELSE ts

\* checkThreshold with > in place of >=
checkThresholdStrict(change) == Abs(change) > threshold

\* checkThreshold(change)
checkThreshold(change) == Abs(change) >= threshold

\* the early return without the worldVisible test
IgnoredPauseOnly(paused, visible) == paused

\* the early return shared by down, move, up and handleWheel
Ignored(paused, visible) == paused \/ ~visible

\* down: registry update
downMouse(mouse, event) == IF event.pointerType = "mouse" THEN TRUE ELSE mouse
\* down without the get() test: every touch down pushes an entry
downTouchesNoLookup(ts, event) ==
    IF event.pointerType = "mouse" THEN ts ELSE Append(ts, Touch(event.pointerId))

downTouches(ts, event) ==
    IF event.pointerType = "mouse" THEN ts
    ELSE IF get(ts, event.pointerId) = NoTouch THEN Append(ts, Touch(event.pointerId))
    ELSE ts

\* down with clientX used for both coordinates of the reference point
downLastXOnly(c, old, event) == IF c = 1 THEN Point(event.clientX, event.clientX) ELSE old

\* down that consults only the decelerate indicator
downClickedAvailableNoBounce(c, decelerate, bounce) ==
    IF c = 1 THEN IF decelerate # "active" THEN "true" ELSE "false" ELSE "false"

\* down: click-intent update, given the count after the registry update
downLast(c, old, event) == IF c = 1 THEN Point(event.clientX, event.clientY) ELSE old
downClickedAvailable(c, decelerate, bounce) ==
    IF c = 1
    THEN IF (decelerate = "absent" \/ decelerate # "active") /\ (bounce = "absent" \/ bounce # "active")
         THEN "true" ELSE "false"
    ELSE "false"

\* stopPropagation on every stop verdict, whatever the option
stopPropagationCallsAlways(stop, opts) == IF stop THEN 1 ELSE 0

\* stop && this.viewport.options.stopPropagation
stopPropagationCalls(stop, opts) == IF stop /\ opts.stopPropagation THEN 1 ELSE 0

\* move that arms the click again when the pointer is back within the threshold
moveClickedAvailableRearm(ca, ref, event) ==
    IF IsPoint(ref) /\ ca # "undefined"
    THEN IF checkThreshold(event.clientX - ref.x) \/ checkThreshold(event.clientY - ref.y)
         THEN "false" ELSE "true"
    ELSE ca

\* move: click-intent update
moveClickedAvailable(ca, ref, event) ==
    IF ca = "true" /\ IsPoint(ref)
    THEN IF checkThreshold(event.clientX - ref.x) \/ checkThreshold(event.clientY - ref.y)
         THEN "false" ELSE ca
    ELSE ca

\* up: registry update
upMouse(mouse, event) == IF event.pointerType = "mouse" THEN FALSE ELSE mouse
upTouches(ts, event) == IF event.pointerType # "mouse" THEN remove(ts, event.pointerId) ELSE ts

\* up that emits without the count() === 0 test
upEmitsAnyCount(ca, c, ref) == ca = "true" /\ IsPoint(ref)

\* up: this.clickedAvailable && this.count() === 0 && this.last
upEmits(ca, c, ref) == ca = "true" /\ c = 0 /\ IsPoint(ref)

\* mapPositionToPoint that does not subtract the rectangle's offset
mapPositionToPointNoOffset(canvas, x, y) ==
    LET rect == IF ~canvas.hasParent
                THEN [left |-> 0, top |-> 0, width |-> canvas.width, height |-> canvas.height]
                ELSE canvas.rect
    IN Point(x * (canvas.width \div rect.width), y * (canvas.height \div rect.height))

\* mapPositionToPoint(point, x, y), for the canvas's current metrics
mapPositionToPoint(canvas, x, y) ==
    LET rect == IF ~canvas.hasParent
                THEN [left |-> 0, top |-> 0, width |-> canvas.width, height |-> canvas.height]
                ELSE canvas.rect
        resolutionMultiplier == 1
    IN Point((x - rect.left) * (canvas.width \div rect.width) * resolutionMultiplier,
             (y - rect.top) * (canvas.height \div rect.height) * resolutionMultiplier)

\* getPointerPosition(event)
getPointerPosition(canvas, event) == mapPositionToPoint(canvas, event.clientX, event.clientY)

\* viewport.toLocal(point): from canvas pixels into the viewport's own space
toLocal(view, p) == Point(p.x - view.x, p.y - view.y)

\* the wheel gate with the right and bottom edges excluded
wheelAdmittedHalfOpen(view, point) ==
    /\ view.left <= point.x
    /\ point.x < view.right
    /\ view.top <= point.y
    /\ point.y < view.bottom

\* handleWheel: only handle wheel events where the mouse is over the viewport
wheelAdmitted(view, point) ==
    /\ view.left <= point.x
    /\ point.x <= view.right
    /\ view.top <= point.y
    /\ point.y <= view.bottom

\* preventDefault on every stop verdict, passive listener or not
preventDefaultCallsAlways(stop, opts) == IF stop THEN 1 ELSE 0

\* stop && !this.viewport.options.passiveWheel
preventDefaultCalls(stop, opts) == IF stop /\ ~opts.passiveWheel THEN 1 ELSE 0

\* --------------------------------------------------------------- history
\* press records what has happened in the current press sequence:
\*   tap       "pressed": a down took count() from 0 to 1 with the surface active
\*             and no indicator active, and only moves below the threshold and
\*             wheel events have followed it; "released": the step just taken
\*             was the up of that pointer.  pointer and point are the down's,
\*             signals the clicked signals emitted from the down on
\*   multi     a down of the press sequence that the last step belonged to
\*             left count() above 1
\*   cancelled pause() or clear() was called while a click was pending and no
\*             down has armed a click since
\*   spoiled   why the click of this press is off: "moved" (a move disarmed it),
\*             "indicator" (an indicator was active at the arming down), or
\*             "no"; any later admitted down starts afresh
NoTap == [phase |-> "none", pointer |-> NoEvent, point |-> NullPoint, signals |-> 0]
NoPress == [tap |-> NoTap, multi |-> FALSE, cancelled |-> FALSE, spoiled |-> "no"]

Admitted(f, op) == f.op = op /\ ~f.ignored
IndicatorActive(f) == f.decelerate = "active" \/ f.bounce = "active"

tapAfter(h, before, f) ==
    IF Admitted(f, "down") /\ before = 0 /\ ~IndicatorActive(f)
    THEN [phase |-> "pressed", pointer |-> Pointer(f.event),
          point |-> Point(f.event.clientX, f.event.clientY), signals |-> f.clicked]
    ELSE IF h.tap.phase # "pressed" THEN NoTap
    ELSE IF Admitted(f, "move")
              /\ Abs(f.event.clientX - h.tap.point.x) < threshold
              /\ Abs(f.event.clientY - h.tap.point.y) < threshold
    THEN [h.tap EXCEPT !.signals = @ + f.clicked]
    ELSE IF Admitted(f, "wheel")
    THEN [h.tap EXCEPT !.signals = @ + f.clicked]
    ELSE IF Admitted(f, "up") /\ f.event = h.tap.pointer
    THEN [h.tap EXCEPT !.phase = "released", !.signals = @ + f.clicked]
    ELSE NoTap

multiAfter(h, before, f, after) ==
    IF Admitted(f, "down") /\ after > 1 THEN TRUE
    ELSE IF before = 0 THEN FALSE
    ELSE h.multi

cancelledAfter(h, f, caBefore, ca) ==
    IF f.op \in {"pause", "clear"} /\ caBefore = "true" THEN TRUE
    ELSE IF Admitted(f, "down") /\ ca = "true" THEN FALSE
    ELSE h.cancelled

spoiledAfter(h, after, f, caBefore, ca) ==
    IF Admitted(f, "down")
    THEN IF after = 1 /\ IndicatorActive(f) THEN "indicator" ELSE "no"
    ELSE IF Admitted(f, "move") /\ caBefore = "true" /\ ca = "false" THEN "moved"
    ELSE h.spoiled

\* every action ends by recording its step in the history
Observe ==
    LET before == count(isMouseDown, touches)
        after == count(isMouseDown', touches')
    IN press' = [tap |-> tapAfter(press, before, fx'),
                 multi |-> multiAfter(press, before, fx', after),
                 cancelled |-> cancelledAfter(press, fx', clickedAvailable, clickedAvailable'),
                 spoiled |-> spoiledAfter(press, after, fx', clickedAvailable, clickedAvailable')]

\* -------------------------------------------------------------- listeners
Listener(type, fn) == [type |-> type, fn |-> fn]

\* addListeners(): the addEventListener calls made for the given options; no
\* pointermove listener (and no moveFunction) and no pointerleave listener
\* when allowPreserveDragOutside is set
addListeners(opts) ==
    {Listener("pointerdown", "downFunction")}
    \cup (IF opts.allowPreserveDragOutside THEN {} ELSE {Listener("pointermove", "moveFunction")})
    \cup {Listener("pointerup", "upFunction"), Listener("pointercancel", "upFunction")}
    \cup (IF ~opts.allowPreserveDragOutside THEN {Listener("pointerleave", "upFunction")} ELSE {})
    \cup {Listener("wheel", "wheelFunction")}

\* the function fields as addListeners leaves them
moveFunction(opts) == IF opts.allowPreserveDragOutside THEN "undefined" ELSE "moveFunction"

\* destroy(): the removeEventListener calls; each removes the listener of that
\* type and function if there is one
removals(opts) ==
    {Listener("wheel", "wheelFunction"), Listener("pointerdown", "downFunction"),
     Listener("pointermove", moveFunction(opts)), Listener("pointerup", "upFunction"),
     Listener("pointercancel", "upFunction"), Listener("pointerleave", "upFunction")}

\* whether the canvas element has a listener for the event type
Listening(ls, type) == \E l \in ls : l.type = type

\* hw: pressed, the pointers now pressed on the canvas; destroyed, whether
\* destroy() has been called; drag, the progress of three hardware events in
\* a row: a pointerdown, a pointermove displaced from it by more than the
\* threshold, the pointerup of the same pointer
NoDrag == [phase |-> "none", pointer |-> NoEvent, point |-> NullPoint]
NoHw == [pressed |-> {}, destroyed |-> FALSE, drag |-> NoDrag]

dragAfter(d, type, event) ==
    IF type = "pointerdown"
    THEN [phase |-> "down", pointer |-> Pointer(event),
          point |-> Point(event.clientX, event.clientY)]
    ELSE IF type = "pointermove" /\ d.phase = "down"
              /\ (Abs(event.clientX - d.point.x) > threshold
                    \/ Abs(event.clientY - d.point.y) > threshold)
    THEN [d EXCEPT !.phase = "moved"]
    ELSE IF type = "pointerup" /\ d.phase = "moved" /\ Pointer(event) = d.pointer
    THEN [d EXCEPT !.phase = "released"]
    ELSE NoDrag

\* mapped: the arguments and the result of the last mapPositionToPoint call
NoCanvas ==
    [hasParent |-> FALSE, width |-> 0, height |-> 0,
     rect |-> [left |-> 0, top |-> 0, width |-> 0, height |-> 0]]
NoMapped == [called |-> FALSE, canvas |-> NoCanvas, x |-> 0, y |-> 0, point |-> NullPoint]

\* ------------------------------------------------------------------- Init
\* the state after construction
Constructed ==
    /\ touches = <<>>
    /\ isMouseDown = FALSE
    /\ last = UndefinedPoint
    /\ clickedAvailable = "undefined"
    /\ viewportPause = FALSE
    /\ worldVisible = TRUE
    /\ fx = NoFx("init")
    /\ press = NoPress
    /\ listeners = addListeners(options)
    /\ hw = NoHw
    /\ mapped = NoMapped

\* the handlers called directly: they never read allowPreserveDragOutside
Init ==
    /\ options \in {o \in Options : ~o.allowPreserveDragOutside}
    /\ Constructed

\* ---------------------------------------------------------------- actions
\* down, after the early return and the registry update; the indicators are
\* queried only when count() === 1, the chain is called in either case
downAdmitted(event, m, ts, c, decelerate, bounce, stop) ==
    /\ isMouseDown' = m
    /\ touches' = ts
    /\ last' = downLast(c, last, event)
    /\ clickedAvailable' = downClickedAvailable(c, decelerate, bounce)
    /\ fx' = [NoFx("down") EXCEPT !.event = event,
                                  !.decelerate = decelerate, !.bounce = bounce,
                                  !.chain = "down", !.stop = stop,
                                  !.stopPropagation = stopPropagationCalls(stop, options)]

down(event) ==
    /\ UNCHANGED surface
    /\ IF Ignored(viewportPause, worldVisible)
       THEN /\ UNCHANGED manager
            /\ fx' = [NoFx("down") EXCEPT !.ignored = TRUE]
       ELSE LET m == downMouse(isMouseDown, event)
                ts == downTouches(touches, event)
                c == count(m, ts)
            IN \E stop \in BOOLEAN :
                 IF c = 1
                 THEN \E decelerate \in Indicators, bounce \in Indicators :
                        downAdmitted(event, m, ts, c, decelerate, bounce, stop)
                 ELSE downAdmitted(event, m, ts, c, "unqueried", "unqueried", stop)
    /\ Observe

move(event) ==
    /\ UNCHANGED surface
    /\ IF Ignored(viewportPause, worldVisible)
       THEN /\ UNCHANGED manager
            /\ fx' = [NoFx("move") EXCEPT !.ignored = TRUE]
       ELSE \E stop \in BOOLEAN :
            /\ UNCHANGED <<touches, isMouseDown, last>>
            /\ clickedAvailable' = moveClickedAvailable(clickedAvailable, last, event)
            /\ fx' = [NoFx("move") EXCEPT !.event = event,
                                          !.chain = "move", !.stop = stop,
                                          !.stopPropagation = stopPropagationCalls(stop, options)]
    /\ Observe

up(event) ==
    /\ UNCHANGED surface
    /\ IF Ignored(viewportPause, worldVisible)
       THEN /\ UNCHANGED manager
            /\ fx' = [NoFx("up") EXCEPT !.ignored = TRUE]
       ELSE \E stop \in BOOLEAN :
            LET m == upMouse(isMouseDown, event)
                ts == upTouches(touches, event)
                emit == upEmits(clickedAvailable, count(m, ts), last)
            IN /\ isMouseDown' = m
               /\ touches' = ts
               /\ UNCHANGED last
               /\ clickedAvailable' = IF emit THEN "false" ELSE clickedAvailable
               /\ fx' = [NoFx("up") EXCEPT !.event = event,
                                        !.chain = "up", !.stop = stop,
                                        !.clicked = IF emit THEN 1 ELSE 0,
                                        !.screen = IF emit THEN last ELSE NullPoint,
                                        !.stopPropagation = stopPropagationCalls(stop, options)]
    /\ Observe

handleWheel(event, canvas) ==
    /\ UNCHANGED surface
    /\ UNCHANGED manager
    /\ IF Ignored(viewportPause, worldVisible)
       THEN fx' = [NoFx("wheel") EXCEPT !.ignored = TRUE]
       ELSE LET point == toLocal(Viewport, getPointerPosition(canvas, event))
            IN IF wheelAdmitted(Viewport, point)
               THEN \E stop \in BOOLEAN :
                      fx' = [NoFx("wheel") EXCEPT !.local = point,
                                                   !.chain = "wheel", !.stop = stop,
                                                   !.preventDefault = preventDefaultCalls(stop, options)]
               ELSE fx' = [NoFx("wheel") EXCEPT !.local = point]
    /\ Observe

\* clear(): isMouseDown = false; touches = []; last = null
clear ==
    /\ isMouseDown' = FALSE
    /\ touches' = <<>>
    /\ last' = NullPoint
    /\ UNCHANGED clickedAvailable
    /\ UNCHANGED surface
    /\ fx' = NoFx("clear")
    /\ Observe

\* pause() that clears the touches only
pauseKeepsMouse ==
    /\ touches' = <<>>
    /\ UNCHANGED <<isMouseDown, last, clickedAvailable>>
    /\ UNCHANGED surface
    /\ fx' = NoFx("pause")
    /\ Observe

\* pause(): touches = []; isMouseDown = false
pause ==
    /\ touches' = <<>>
    /\ isMouseDown' = FALSE
    /\ UNCHANGED <<last, clickedAvailable>>
    /\ UNCHANGED surface
    /\ fx' = NoFx("pause")
    /\ Observe

\* the owning surface changes its pause flag / its world visibility
SetPause(b) ==
    /\ viewportPause # b
    /\ viewportPause' = b
    /\ UNCHANGED <<manager, worldVisible, options>>
    /\ fx' = NoFx("surface")
    /\ Observe

SetWorldVisible(b) ==
    /\ worldVisible # b
    /\ worldVisible' = b
    /\ UNCHANGED <<manager, viewportPause, options>>
    /\ fx' = NoFx("surface")
    /\ Observe

\* ------------------------------------------------------ the canvas element
\* a hardware event for which the canvas element has no listener
Undelivered ==
    /\ UNCHANGED manager
    /\ UNCHANGED surface
    /\ fx' = NoFx("undelivered")
    /\ Observe

\* the hardware: a mouse and fingers, moving along the top edge of the
\* canvas, far enough to exceed the threshold
HwPointerEvents == {e \in PointerEvents : e.clientY = 0}
HwUpEvents == {Pointer(e) : e \in HwPointerEvents}
HwMoveEvents ==
    [pointerType : {"any"}, pointerId : {0}, clientX : 0..(MaxX + threshold), clientY : {0}]
HwWheelEvents == {e \in WheelEvents : e.clientX = e.clientY}

ReleaseTypes == {"pointerup", "pointercancel", "pointerleave"}

\* a pointer that is not pressed goes down on the canvas
pointerdown(event) ==
    /\ Pointer(event) \notin hw.pressed
    /\ IF Listening(listeners, "pointerdown") THEN down(event) ELSE Undelivered
    /\ hw' = [hw EXCEPT !.pressed = @ \cup {Pointer(event)},
                        !.drag = dragAfter(@, "pointerdown", event)]
    /\ UNCHANGED <<listeners, mapped>>

pointermove(event) ==
    /\ IF Listening(listeners, "pointermove") THEN move(event) ELSE Undelivered
    /\ hw' = [hw EXCEPT !.drag = dragAfter(@, "pointermove", event)]
    /\ UNCHANGED <<listeners, mapped>>

\* a pressed pointer is lifted or cancelled, or a pointer leaves the canvas
release(type, event) ==
    /\ type \in {"pointerup", "pointercancel"} => event \in hw.pressed
    /\ IF Listening(listeners, type) THEN up(event) ELSE Undelivered
    /\ hw' = [hw EXCEPT !.pressed = @ \ {event},
                        !.drag = dragAfter(@, type, event)]
    /\ UNCHANGED <<listeners, mapped>>

wheel(event, canvas) ==
    /\ IF Listening(listeners, "wheel") THEN handleWheel(event, canvas) ELSE Undelivered
    /\ hw' = [hw EXCEPT !.drag = NoDrag]
    /\ UNCHANGED <<listeners, mapped>>

\* destroy() that forgets the pointercancel listener
destroyKeepsCancel ==
    /\ listeners' = listeners \ (removals(options) \ {Listener("pointercancel", "upFunction")})
    /\ hw' = [hw EXCEPT !.destroyed = TRUE, !.drag = NoDrag]
    /\ UNCHANGED <<manager, surface, mapped>>
    /\ fx' = NoFx("destroy")
    /\ Observe

\* destroy(): the removeEventListener calls
destroy ==
    /\ listeners' = listeners \ removals(options)
    /\ hw' = [hw EXCEPT !.destroyed = TRUE, !.drag = NoDrag]
    /\ UNCHANGED <<manager, surface, mapped>>
    /\ fx' = NoFx("destroy")
    /\ Observe

\* a step of the surface, seen from the canvas element
SurfaceStep == hw' = [hw EXCEPT !.drag = NoDrag] /\ UNCHANGED <<listeners, mapped>>

\* a call of mapPositionToPoint
MapCanvases ==
    Canvases \cup
    { [hasParent |-> TRUE, width |-> 800, height |-> 600,
       rect |-> [left |-> 10, top |-> 10, width |-> 400, height |-> 300]],
      [hasParent |-> TRUE, width |-> 6, height |-> 4,
       rect |-> [left |-> 1, top |-> 0 - 1, width |-> 2, height |-> 4]] }
MapXs == {0, 1, 10, 410}
MapYs == {0, 1, 10, 310}

map(canvas, x, y) ==
    /\ mapped' = [called |-> TRUE, canvas |-> canvas, x |-> x, y |-> y,
                  point |-> mapPositionToPoint(canvas, x, y)]
    /\ UNCHANGED <<manager, surface, fx, press, listeners, hw>>

Next ==
    \/ \E e \in PointerEvents : down(e) /\ UNCHANGED element
    \/ \E e \in MoveEvents : move(e) /\ UNCHANGED element
    \/ \E e \in UpEvents : up(e) /\ UNCHANGED element
    \/ \E e \in WheelEvents, c \in Canvases : handleWheel(e, c) /\ UNCHANGED element
    \/ clear /\ UNCHANGED element
    \/ pause /\ UNCHANGED element
    \/ \E b \in BOOLEAN : SetPause(b) /\ UNCHANGED element
    \/ \E b \in BOOLEAN : SetWorldVisible(b) /\ UNCHANGED element

Spec == Init /\ [][Next]_vars

\* the manager behind its canvas element: hardware events reach the handlers
\* through the listeners that addListeners registered
InitDom ==
    /\ options \in {o \in Options : ~o.stopPropagation}
    /\ Constructed

NextDom ==
    \/ \E e \in HwPointerEvents : pointerdown(e)
    \/ \E e \in HwMoveEvents : pointermove(e)
    \/ \E type \in ReleaseTypes, e \in HwUpEvents : release(type, e)
    \/ \E e \in HwWheelEvents, c \in Canvases : wheel(e, c)
    \/ destroy
    \/ \E b \in BOOLEAN : SetPause(b) /\ SurfaceStep
    \/ \E b \in BOOLEAN : SetWorldVisible(b) /\ SurfaceStep

SpecDom == InitDom /\ [][NextDom]_vars

\* mapPositionToPoint called in any state of the pointers
InitMap ==
    /\ options \in {o \in Options : ~o.stopPropagation /\ ~o.passiveWheel /\ ~o.allowPreserveDragOutside}
    /\ Constructed

NextMap ==
    \/ \E c \in MapCanvases, x \in MapXs, y \in MapYs : map(c, x, y)
    \/ \E e \in {h \in HwPointerEvents : h.pointerId = 1} : down(e) /\ UNCHANGED element
    \/ \E e \in {h \in HwUpEvents : h.pointerId = 1} : up(e) /\ UNCHANGED element

SpecMap == InitMap /\ [][NextMap]_vars

\* ------------------------------------------------------------- properties
Active == ~viewportPause /\ worldVisible
TouchIdsOf(ts) == {ts[i].id : i \in 1..Len(ts)}
Inside(view, p) ==
    IsPoint(p) /\ view.left <= p.x /\ p.x <= view.right /\ view.top <= p.y /\ p.y <= view.bottom

\* C1: in every reachable state the touch list holds at most one contact per
\* id, and count() is the number of distinct registered touch ids plus 1 if
\* the mouse flag is set (so it is never negative); in particular a second
\* down for a registered touch id has added no second entry.
C1_OneContactPerId ==
    /\ \A i, j \in 1..Len(touches) : touches[i].id = touches[j].id => i = j
    /\ count(isMouseDown, touches)
         = Cardinality(TouchIdsOf(touches)) + (IF isMouseDown THEN 1 ELSE 0)
    /\ count(isMouseDown, touches) >= 0

\* C1 witness: an admitted down of touch 1 that found count() at 1 before and
\* after it, touch 1 being the only contact: a duplicate down.
C1_DuplicateDownSeen ==
    /\ Admitted(fx, "down")
    /\ fx.event.pointerType = "touch" /\ fx.event.pointerId = 1
    /\ touches = <<Touch(1)>> /\ ~isMouseDown
    /\ fx.decelerate # "unqueried"
    /\ press.tap.phase = "none" /\ ~IndicatorActive(fx)

\* C2: when a down took count() from 0 to 1 with the surface active and no
\* indicator active, and the up of the same pointer followed with only moves
\* below the threshold in between, exactly one clicked signal was emitted from
\* the down on, by that up, and its screen point is the down's clientX/clientY.
C2_TapEmitsOneClick ==
    press.tap.phase = "released" =>
        /\ press.tap.signals = 1
        /\ fx.clicked = 1
        /\ fx.screen = press.tap.point

\* C2 witness: a touch tap released whose down was at (1, 0).
C2_TapReleased ==
    /\ press.tap.phase = "released"
    /\ press.tap.pointer.pointerType = "touch"
    /\ press.tap.point = Point(1, 0)
    /\ fx.op = "up"

\* C3: once a down of the press sequence has left count() above 1, no step
\* of that press sequence emits a clicked signal.
C3_MultiContactNeverClicks == press.multi => fx.clicked = 0

\* C4: an admitted move made while the click is armed (clickedAvailable true
\* and a reference point recorded) disarms it exactly if |dx| >= threshold or
\* |dy| >= threshold and otherwise leaves it armed; and once a move has
\* disarmed the click, it stays disarmed and no clicked signal is emitted
\* until a later down.
C4_MoveStep ==
    (Admitted(fx', "move") /\ clickedAvailable = "true" /\ IsPoint(last)) =>
        clickedAvailable' =
            (IF Abs(fx'.event.clientX - last.x) >= threshold
                \/ Abs(fx'.event.clientY - last.y) >= threshold
             THEN "false" ELSE "true")
C4_StaysDisarmed == press.spoiled = "moved" => (clickedAvailable # "true" /\ fx.clicked = 0)
C5_IndicatorsGateArming ==
    /\ (Admitted(fx, "down") /\ count(isMouseDown, touches) = 1) =>
           (clickedAvailable = "true" <=> (fx.decelerate # "active" /\ fx.bounce # "active"))
    /\ press.spoiled = "indicator" => (clickedAvailable # "true" /\ fx.clicked = 0)

\* C5 witness: the up right after a down made while only the bounce indicator
\* was active (the decelerate plugin absent).
C5_TapDuringBounce ==
    /\ press.spoiled = "indicator"
    /\ Admitted(fx, "up")
    /\ count(isMouseDown, touches) = 0
    /\ IsPoint(last)

\* C6: a down, move, up or wheel event that arrives while the surface is
\* paused or not world-visible changes none of the touch list, the mouse
\* flag, the reference point and clickedAvailable, calls no plugin-chain
\* method, emits no clicked signal and calls neither stopPropagation nor
\* preventDefault.
C6_IgnoredStep ==
    (fx'.op \in {"down", "move", "up", "wheel"} /\ (viewportPause \/ ~worldVisible)) =>
        /\ touches' = touches
        /\ isMouseDown' = isMouseDown
        /\ last' = last
        /\ clickedAvailable' = clickedAvailable
        /\ fx'.chain = "none"
        /\ fx'.clicked = 0
        /\ fx'.stopPropagation = 0
        /\ fx'.preventDefault = 0
C6_IgnoredWhileSuppressed == [][C6_IgnoredStep]_vars

\* C6 witness: an up ignored on an unpaused but invisible surface while a
\* click was pending.
C6_UpIgnoredWhileInvisible ==
    /\ fx.op = "up" /\ fx.ignored
    /\ ~viewportPause /\ ~worldVisible
    /\ clickedAvailable = "true" /\ count(isMouseDown, touches) = 1

\* C7: once pause() or clear() has been called while a click was pending, no
\* clicked signal is emitted until a down arms a click again.
C7_PauseCancelsClick == press.cancelled => fx.clicked = 0

\* C8: a wheel event reaches the plugin chain exactly if the surface is not
\* paused and visible and its mapped local point lies within the visible
\* bounds, edges included.
C8_WheelGate ==
    fx.op = "wheel" =>
        /\ fx.chain = "wheel" <=> (Active /\ Inside(Viewport, fx.local))
        /\ Active => IsPoint(fx.local)

\* C8 witness: a wheel event admitted on the right and bottom edges.
C8_WheelOnEdge ==
    /\ fx.op = "wheel" /\ fx.chain = "wheel"
    /\ fx.local.x = Viewport.right /\ fx.local.y = Viewport.bottom

\* C9: preventDefault is called on a wheel event exactly if the event was
\* admitted to the chain, the verdict is stop and passiveWheel is false (so
\* never under a passive listener), and never more than once.
C9_PreventDefault ==
    fx.op = "wheel" =>
        /\ fx.preventDefault \in {0, 1}
        /\ fx.preventDefault = 1 <=> (fx.chain = "wheel" /\ fx.stop /\ ~options.passiveWheel)

\* C9 witness: a stop verdict on an admitted wheel event under a passive listener.
C9_StopUnderPassive ==
    /\ fx.op = "wheel" /\ fx.chain = "wheel" /\ fx.stop
    /\ options.passiveWheel

\* C10: for a down, move or up event, stopPropagation is called exactly if the
\* event was admitted, the chain's verdict is stop and the stopPropagation
\* option is set, and never more than once.
C10_StopPropagation ==
    fx.op \in {"down", "move", "up"} =>
        /\ fx.stopPropagation \in {0, 1}
        /\ fx.stopPropagation = 1 <=>
              (Active /\ fx.chain = fx.op /\ fx.stop /\ options.stopPropagation)
        /\ Active <=> fx.chain = fx.op

\* C10 witness: a stop verdict on an admitted move with the option off.
C10_StopWithoutOption ==
    /\ Admitted(fx, "move") /\ fx.stop
    /\ ~options.stopPropagation

HandlerOps == {"down", "move", "up", "wheel"}
HardwareOps == HandlerOps \cup {"undelivered"}

\* C11: destroy() leaves the canvas element without any listener, whatever
\* the options; once destroy() has been called a hardware event reaches no
\* handler: it changes no field of the manager, calls no plugin chain and
\* emits no clicked; and a second destroy() changes neither the manager nor
\* the listeners.
C11_Step ==
    /\ fx'.op = "destroy" => listeners' = {}
    /\ hw.destroyed =>
           /\ fx'.op \in HardwareOps =>
                  /\ fx'.op = "undelivered"
                  /\ manager' = manager
                  /\ fx'.chain = "none" /\ fx'.clicked = 0
           /\ fx'.op = "destroy" =>
                  (manager' = manager /\ listeners' = listeners /\ surface' = surface)
C11_DestroyDetaches == [][C11_Step]_vars

\* C11 witness: with allowPreserveDragOutside and passiveWheel set, the pointer
\* that armed a click is released after destroy(): the event is not delivered.
C11_ReleasedAfterDestroy ==
    /\ hw.destroyed /\ fx.op = "undelivered"
    /\ options.allowPreserveDragOutside /\ options.passiveWheel
    /\ clickedAvailable = "true" /\ isMouseDown
    /\ hw.pressed = {}

\* C12: an admitted up for a touch id that is not registered leaves the touch
\* list and the mouse flag unchanged and emits no clicked; and the down after
\* an up of a touch that brings count() to 1 sets the reference point to its
\* own coordinates and clickedAvailable from the indicators.
C12_Step ==
    /\ (Admitted(fx', "up") /\ fx'.event.pointerType = "touch"
          /\ get(touches, fx'.event.pointerId) = NoTouch) =>
           (touches' = touches /\ isMouseDown' = isMouseDown /\ fx'.clicked = 0)
    /\ (Admitted(fx, "up") /\ fx.event.pointerType = "touch"
          /\ Admitted(fx', "down") /\ count(isMouseDown', touches') = 1) =>
           /\ last' = Point(fx'.event.clientX, fx'.event.clientY)
           /\ clickedAvailable' = "true" <=> ~IndicatorActive(fx')
C12_SpuriousUpHarmless == [][C12_Step]_vars

\* C13: pause() and clear() each leave no contact, the mouse flag cleared and
\* count() = 0; a second call right after the first changes nothing; and an
\* event handled while the surface is paused and count() is 0 keeps count()
\* at 0 and emits no clicked.
C13_Step ==
    /\ fx'.op \in {"pause", "clear"} =>
           /\ count(isMouseDown', touches') = 0
           /\ ~isMouseDown'
           /\ \A id \in TouchIds : get(touches', id) = NoTouch
    /\ (fx'.op \in {"pause", "clear"} /\ fx.op = fx'.op) => manager' = manager
    /\ (fx'.op \in HandlerOps /\ viewportPause /\ count(isMouseDown, touches) = 0) =>
           (count(isMouseDown', touches') = 0 /\ fx'.clicked = 0)
C13_ResetIsTotal == [][C13_Step]_vars

\* C13 witness: clear() called in a press sequence that had several contacts.
C13_ClearedMidPress ==
    /\ fx.op = "clear"
    /\ press.multi
    /\ touches = <<>> /\ ~isMouseDown

\* C14: while the listeners are registered, count() reflects exactly the
\* pointers pressed on the canvas: the mouse flag is set exactly when the
\* mouse is pressed and the touch list holds exactly the touches in contact.
C14_CountIsPressed ==
    ~hw.destroyed =>
        /\ isMouseDown <=> (\E p \in hw.pressed : p.pointerType = "mouse")
        /\ TouchIdsOf(touches) = {p.pointerId : p \in {q \in hw.pressed : q.pointerType = "touch"}}
        /\ count(isMouseDown, touches) = Cardinality(hw.pressed)

\* C15: mapPositionToPoint returns (x - rect.left) * (width / rect.width) and
\* (y - rect.top) * (height / rect.height), where rect is the bounding
\* rectangle, or the backing size at the origin when the canvas has no parent
\* (then the result is the argument); for backing size 800x600 and rectangle
\* 400x300 at (10,10), (10,10) maps to (0,0) and (410,310) to (800,600);
\* whatever the state of the pointers.
C15_MapFormula ==
    mapped.called =>
        LET c == mapped.canvas
            rect == IF c.hasParent THEN c.rect
                    ELSE [left |-> 0, top |-> 0, width |-> c.width, height |-> c.height]
        IN /\ IsPoint(mapped.point)
           /\ mapped.point.x * rect.width = (mapped.x - rect.left) * c.width
           /\ mapped.point.y * rect.height = (mapped.y - rect.top) * c.height
           /\ ~c.hasParent => mapped.point = Point(mapped.x, mapped.y)
           /\ (c.hasParent /\ c.width = 800 /\ c.height = 600
                 /\ mapped.x = 10 /\ mapped.y = 10) => mapped.point = Point(0, 0)
           /\ (c.hasParent /\ c.width = 800 /\ c.height = 600
                 /\ mapped.x = 410 /\ mapped.y = 310) => mapped.point = Point(800, 600)

\* C15 witness: the far corner of the 400x300 rectangle mapped while the
\* mouse is down.
C15_FarCornerMapped ==
    /\ mapped.called /\ mapped.canvas.width = 800 /\ mapped.canvas.rect.width = 400
    /\ mapped.x = 410 /\ mapped.y = 310
    /\ mapped.point = Point(800, 600)
    /\ isMouseDown

\* C16: an admitted down that finds count() already at 1 or more neither
\* moves the reference point nor arms a click that was not armed.
C16_Step ==
    (Admitted(fx', "down") /\ count(isMouseDown, touches) >= 1) =>
        /\ last' = last
        /\ clickedAvailable # "true" => clickedAvailable' # "true"
C16_ArmedOnlyByFirstDown == [][C16_Step]_vars

\* C17: a pointerdown, a pointermove displaced from it by more than the
\* threshold and the pointerup of that pointer, in a row on the canvas
\* element, emit no clicked, whatever the options.
C17_DragNeverClicks == hw.drag.phase = "released" => fx.clicked = 0

\* C18: a clicked signal is emitted only by an up after which count() is 0,
\* it uses up the armed click, only an admitted down arms a click, and an up
\* right after a click emits nothing.
C18_Step ==
    /\ fx'.clicked # 0 =>
           /\ fx'.clicked = 1
           /\ fx'.op = "up"
           /\ count(isMouseDown', touches') = 0
           /\ clickedAvailable = "true" /\ clickedAvailable' = "false"
    /\ (clickedAvailable # "true" /\ clickedAvailable' = "true") => Admitted(fx', "down")
    /\ (fx.clicked = 1 /\ fx'.op = "up") => fx'.clicked = 0
C18_OneClickPerArming == [][C18_Step]_vars

\* C18 witness: a click emitted by the up of the mouse on which the chain said stop.
C18_ClickEmitted ==
    /\ fx.clicked = 1 /\ fx.op = "up"
    /\ fx.event.pointerType = "mouse" /\ fx.stop

\* C19: whenever clickedAvailable is true, count() is 1 and the reference
\* point is set.
C19_ArmedMeansOnePointer ==
    clickedAvailable = "true" => (count(isMouseDown, touches) = 1 /\ IsPoint(last))

\* C20: a move changes none of the touch list, the mouse flag and the
\* reference point and changes clickedAvailable, if at all, from true to
\* false; a wheel event changes none of the four and emits no clicked.
C20_Step ==
    /\ fx'.op = "move" =>
           /\ touches' = touches /\ isMouseDown' = isMouseDown /\ last' = last
           /\ \/ clickedAvailable' = clickedAvailable
              \/ (clickedAvailable = "true" /\ clickedAvailable' = "false")
    /\ fx'.op = "wheel" =>
           /\ touches' = touches /\ isMouseDown' = isMouseDown /\ last' = last
           /\ clickedAvailable' = clickedAvailable
           /\ fx'.clicked = 0
C20_MoveAndWheelFrame == [][C20_Step]_vars

\* C20 witness: a wheel event admitted to the chain while a click is armed.
C20_WheelWhileArmed ==
    /\ fx.op = "wheel" /\ fx.chain = "wheel"
    /\ clickedAvailable = "true" /\ count(isMouseDown, touches) = 1

====
